---- MODULE Spec2Model ----
(***************************************************************************)
(* GPO fishing macro: the session state machine of main.py, the position   *)
(* estimator and hold/release controller of detector.py and the actuator   *)
(* of mouse_control.py.                                                     *)
(*                                                                          *)
(* A frame is modelled by the features the detector extracts from it with  *)
(* OpenCV: pixel counts of each colour mask, the mean row of the fish      *)
(* mask and the mean row of the largest run of clear rows.                  *)
(* sweet_spot_velocity is a float in the source; the model keeps it as an  *)
(* integer count of 1/VelDen pixels per tick and only takes a tick whose   *)
(* halving is exact on that grid.                                           *)
(* Wall-clock time is seen by the program only through                     *)
(* time.time() - idle_start_time; the model keeps that difference.         *)
(***************************************************************************)
EXTENDS Integers, Sequences, FiniteSets, TLC

\* ------------------------------------------------------------------ bounds
\* velocity grid: multiples of 2^-MaxVelExp
MaxVelExp == 1
\* cap on FishingDetector.pulse_counter (unbounded in the dither branches)
MaxPulse == 30
\* the idle-timeout expiries counted since the last UI-present Idle tick
MaxExpiries == 8
\* scripted session: ticks with the UI absent, then with the UI present
MaxAbsent == 3
MaxPresent == 5
\* steady run: controller ticks observed
MaxSteadyTicks == 24
\* actuator specification: MouseController calls made
MaxCalls == 5
\* interleaved specification: hotkey presses handled, and idle-timeout expiries
\* the clock may bring about since the last UI-present Idle tick
MaxKeys == 3
MaxConcExpiries == 1

\* longest recorded run of consecutive dither ticks
MaxDitherRun == 8

\* --------------------------------------------------------------- constants
None == -9999
IDLE_TIMEOUT == 30
NO_BAIT_THRESHOLD == 7
MIN_FISH_MARKER_PIXELS == 10
MIN_BAR_PIXELS == 500
MIN_BLUE_PIXELS == 300
DEAD_ZONE == 20
WARMUP_DEAD_ZONE == 5
BRAKE_VELOCITY == 8
DRIFT_VELOCITY == 3
GRAVITY_COMPENSATION == 0
PULSE_HOLD_FRAMES == 5
PULSE_RELEASE_FRAMES == 1
TAP_CYCLE == 4
TAP_HOLD == 2
MAX_SWEET_SPOT_JUMP == 50
WARMUP_FRAMES == 10
SWEET_SPOT_SEED == 150
STUCK_VALUE == 150
EDGE_MIN == 20
EDGE_MAX == 280
TOP_EDGE == 70
BOTTOM_EDGE == 250
MEDIUM_JUMP_THRESHOLD == 30
GREEN_OFFSET == -8
WHITE_OFFSET == -35
FRAME_HEIGHT == 303
FRAME_WIDTH == 48
PROGRESS_DONE == 95

VelDen == 2 ^ MaxVelExp

Abs(x) == IF x < 0 THEN -x ELSE x
Min(a, b) == IF a < b THEN a ELSE b

\* ------------------------------------------------------------------ frames
\* frames of the session machine: every combination of the UI-presence and
\* progress features, with a small set of marker detections
DarkCounts == {500, 2700}
BlueCounts == {300, 1400}
BarGreenCounts == {1381, 1382}
FishPixelPairs == {<<0, 0>>, <<0, 40>>}
FishMeans == {168}
SweetRaws == {160}

Frames ==
    [dark : DarkCounts, blue : BlueCounts, bar_green : BarGreenCounts,
     fish_pixels : FishPixelPairs, fish_mean : FishMeans, sweet_raw : SweetRaws]

\* frames of a running minigame (UI visible, progress low), with the marker
\* detections the controller's branches need: <<white, green>> pixels and mean row
CtlFishDetections ==
    {<<0, 0, 168>>, <<40, 0, 168>>, <<0, 40, 168>>, <<40, 0, 258>>}
CtlSweetRaws == {None, 150, 160, 180, 220}

CtlFrames ==
    {[dark |-> 2700, blue |-> 1400, bar_green |-> 0,
      fish_pixels |-> <<fd[1], fd[2]>>, fish_mean |-> fd[3], sweet_raw |-> sr] :
        fd \in CtlFishDetections, sr \in CtlSweetRaws}

VARIABLES
    \* FishingMacro
    enabled, running, state, is_holding, idle_duration, consecutive_idle_recasts,
    \* position of run(): "loop" or "done"
    pc,
    \* FishingDetector and MouseController
    detector, mouse,
    \* observations of the last step: which step it was, whether its frame showed
    \* the minigame UI, the MouseController / anti-AFK calls it made, the
    \* controller's return value and branch, the estimator's inputs and outputs
    ev, ui, progress, calls, out, rule, seen,
    \* history: the last MouseController call, idle-timeout expiries and anti-AFK
    \* runs since the last UI-present Idle tick
    last_cmd, expiries, anti_afks,
    \* environments of the scripted specifications
    script, steady,
    \* the threads of the interleaved specification; the call history of the
    \* actuator specification
    conc, hist,
    \* the current run of consecutive dither ticks of the dither specification
    run

obsvars == <<ev, ui, progress, calls, out, rule, seen>>

vars == <<enabled, running, state, is_holding, idle_duration,
          consecutive_idle_recasts, pc, detector, mouse, ev, ui, progress, calls,
          out, rule, seen, last_cmd, expiries, anti_afks, script, steady, conc, hist, run>>

\* ------------------------------------------------------- mouse_control.py
MouseInit == [is_holding |-> FALSE, button |-> FALSE]

MouseHold(m) ==
    IF ~m.is_holding THEN [is_holding |-> TRUE, button |-> TRUE] ELSE m

MouseRelease(m) ==
    IF m.is_holding THEN [is_holding |-> FALSE, button |-> FALSE] ELSE m

\* release(), then press, sleep, release of the OS button
MouseClick(m) == [MouseRelease(m) EXCEPT !.button = FALSE]

MouseCleanupNoop(m) == m

MouseCleanup(m) == MouseRelease(m)

\* the OS button events (pynput press / release) each call sends
HoldEventsAlways(m) == <<"press">>

HoldEvents(m) == IF ~m.is_holding THEN <<"press">> ELSE <<>>

ReleaseEvents(m) == IF m.is_holding THEN <<"release">> ELSE <<>>

\* click() without its leading release()
ClickEventsUnreleased(m) == <<"press", "release">>

ClickEvents(m) == ReleaseEvents(m) \o <<"press", "release">>

\* ------------------------------------------------------------ detector.py
DetectorInit ==
    [last_fish_y |-> None, last_sweet_spot_y |-> None, fish_is_green |-> FALSE,
     prev_sweet_spot_y |-> None, sweet_spot_velocity |-> 0, is_holding |-> FALSE,
     hold_frames |-> 0, pulse_counter |-> 0, warmup_frames |-> 0,
     in_dead_zone |-> FALSE, brake_frames |-> 0]

ResetStateUnseeded(d) ==
    [last_fish_y |-> None, last_sweet_spot_y |-> None,
     fish_is_green |-> FALSE, prev_sweet_spot_y |-> None,
     sweet_spot_velocity |-> 0, is_holding |-> FALSE, hold_frames |-> 0,
     pulse_counter |-> 0, warmup_frames |-> WARMUP_FRAMES,
     in_dead_zone |-> FALSE, brake_frames |-> 0]

ResetStateKeepPhase(d) ==
    [d EXCEPT !.last_fish_y = None, !.last_sweet_spot_y = SWEET_SPOT_SEED,
              !.fish_is_green = FALSE, !.prev_sweet_spot_y = None,
              !.sweet_spot_velocity = 0, !.warmup_frames = WARMUP_FRAMES]

ResetState(d) ==
    [last_fish_y |-> None, last_sweet_spot_y |-> SWEET_SPOT_SEED,
     fish_is_green |-> FALSE, prev_sweet_spot_y |-> None,
     sweet_spot_velocity |-> 0, is_holding |-> FALSE, hold_frames |-> 0,
     pulse_counter |-> 0, warmup_frames |-> WARMUP_FRAMES,
     in_dead_zone |-> FALSE, brake_frames |-> 0]

IsFishingActive(f) == f.dark > MIN_BAR_PIXELS /\ f.blue > MIN_BLUE_PIXELS

\* progress in units of 1e-5: min(1.0, green / (height * width * 0.1))
GetProgress(f) ==
    Min(100000, (f.bar_green * 1000000) \div (FRAME_HEIGHT * FRAME_WIDTH))

IsFishCaughtBarsOnly(f) == ~IsFishingActive(f)

IsFishCaught(f) ==
    IF ~IsFishingActive(f) THEN TRUE
    ELSE GetProgress(f) > PROGRESS_DONE * 1000

\* the hold given up when the marker is not found
GetFishPositionDropsHold(d, f) ==
    LET white_pixels == f.fish_pixels[1]
        green_pixels == f.fish_pixels[2]
        green == green_pixels > white_pixels
        d1 == [d EXCEPT !.fish_is_green = green]
    IN  IF white_pixels + green_pixels < MIN_FISH_MARKER_PIXELS
        THEN [d |-> [d1 EXCEPT !.is_holding = FALSE], ret |-> d1.last_fish_y]
        ELSE LET fish_y == f.fish_mean + (IF green THEN GREEN_OFFSET ELSE WHITE_OFFSET)
             IN  [d |-> [d1 EXCEPT !.last_fish_y = fish_y], ret |-> fish_y]

GetFishPositionForgetful(d, f) ==
    LET white_pixels == f.fish_pixels[1]
        green_pixels == f.fish_pixels[2]
        green == green_pixels > white_pixels
        d1 == [d EXCEPT !.fish_is_green = green]
    IN  IF white_pixels + green_pixels < MIN_FISH_MARKER_PIXELS
        THEN [d |-> [d1 EXCEPT !.last_fish_y = None], ret |-> None]
        ELSE LET fish_y == f.fish_mean + (IF green THEN GREEN_OFFSET ELSE WHITE_OFFSET)
             IN  [d |-> [d1 EXCEPT !.last_fish_y = fish_y], ret |-> fish_y]

\* white and green ranges are disjoint in the blue channel, so the combined
\* mask counts white + green pixels
GetFishPosition(d, f) ==
    LET white_pixels == f.fish_pixels[1]
        green_pixels == f.fish_pixels[2]
        green == green_pixels > white_pixels
        d1 == [d EXCEPT !.fish_is_green = green]
        fish_pixels == white_pixels + green_pixels
    IN  IF fish_pixels < MIN_FISH_MARKER_PIXELS
        THEN [d |-> d1, ret |-> d1.last_fish_y]
        ELSE LET offset == IF green THEN GREEN_OFFSET ELSE WHITE_OFFSET
                 fish_y == f.fish_mean + offset
             IN  [d |-> [d1 EXCEPT !.last_fish_y = fish_y], ret |-> fish_y]

\* the upper limit of the band left out
EdgeRejectedTopOnly(sweet_spot_y) == sweet_spot_y < EDGE_MIN

EdgeRejected(sweet_spot_y) == sweet_spot_y < EDGE_MIN \/ sweet_spot_y > EDGE_MAX

JumpRejectedSigned(sweet_spot_y, last_sweet_spot_y) ==
    /\ last_sweet_spot_y # None
    /\ sweet_spot_y - last_sweet_spot_y > MAX_SWEET_SPOT_JUMP

JumpRejected(sweet_spot_y, last_sweet_spot_y) ==
    /\ last_sweet_spot_y # None
    /\ Abs(sweet_spot_y - last_sweet_spot_y) > MAX_SWEET_SPOT_JUMP

GetSweetSpotPosition(d, f) ==
    LET sweet_spot_y == f.sweet_raw
    IN  IF sweet_spot_y = None
        THEN [d |-> d, ret |-> d.last_sweet_spot_y]
        ELSE IF EdgeRejected(sweet_spot_y)
        THEN [d |-> d, ret |-> d.last_sweet_spot_y]
        ELSE LET d1 == IF d.warmup_frames > 0
                       THEN [d EXCEPT !.warmup_frames = @ - 1]
                       ELSE d
             IN  IF JumpRejected(sweet_spot_y, d1.last_sweet_spot_y)
                 THEN [d |-> d1, ret |-> d1.last_sweet_spot_y]
                 ELSE [d |-> [d1 EXCEPT !.last_sweet_spot_y = sweet_spot_y],
                       ret |-> sweet_spot_y]

\* the answer returned without recording it in self.is_holding
RetUnrecorded(d, hold, label) == [d |-> d, ret |-> hold, rule |-> label]

Ret(d, hold, label) ==
    [d |-> [d EXCEPT !.is_holding = hold], ret |-> hold, rule |-> label]

\* the counter tested before it is incremented
TapHoldBeforeIncrement(pulse_counter) ==
    ((pulse_counter - 1) % TAP_CYCLE) < TAP_HOLD

TapHold(pulse_counter) == (pulse_counter % TAP_CYCLE) < TAP_HOLD

\* the dither without its counter
TapStalled(d, label) == Ret(d, TapHold(d.pulse_counter), label)

\* the 4-tick dither of the missing-data and stuck-at-seed branches
Tap(d, label) ==
    LET pulse_counter == d.pulse_counter + 1
    IN  Ret([d EXCEPT !.pulse_counter = pulse_counter], TapHold(pulse_counter), label)

\* the velocity test the wrong way round
StuckWhileMoving(sweet_spot_y, velocity) ==
    sweet_spot_y = STUCK_VALUE /\ 2 * Abs(velocity) > VelDen

Stuck(sweet_spot_y, velocity) ==
    sweet_spot_y = STUCK_VALUE /\ 2 * Abs(velocity) < VelDen

\* whether 0.5 * velocity + 0.5 * (new - prev) stays on the 1/VelDen grid
VelocityExact(d, sweet_spot_y) ==
    \/ d.prev_sweet_spot_y = None
    \/ (d.sweet_spot_velocity + (sweet_spot_y - d.prev_sweet_spot_y) * VelDen) % 2 = 0

UpdateVelocity(d, sweet_spot_y) ==
    LET d1 == IF d.prev_sweet_spot_y # None
              THEN [d EXCEPT !.sweet_spot_velocity =
                        (@ + (sweet_spot_y - d.prev_sweet_spot_y) * VelDen) \div 2]
              ELSE d
    IN  [d1 EXCEPT !.prev_sweet_spot_y = sweet_spot_y]

IsJump(distance) == Abs(distance) > MEDIUM_JUMP_THRESHOLD

JumpHoldFlipped(distance) == distance > 0

JumpHold(distance) == distance < 0

IsBrake(velocity, is_warmup) == ~is_warmup /\ Abs(velocity) > BRAKE_VELOCITY * VelDen

BrakeHoldFlipped(velocity) == velocity < -(BRAKE_VELOCITY * VelDen)

BrakeHold(velocity) == ~(velocity < -(BRAKE_VELOCITY * VelDen))

PulseNext(pulse_counter) ==
    IF pulse_counter + 1 >= PULSE_HOLD_FRAMES + PULSE_RELEASE_FRAMES
    THEN 0
    ELSE pulse_counter + 1

PulseHoldOffByOne(pulse_counter) == pulse_counter <= PULSE_HOLD_FRAMES

PulseHold(pulse_counter) == pulse_counter < PULSE_HOLD_FRAMES

\* the steady output next to the ends of the bar: "none" away from them
EdgeSteadyLockedOnly(green, sweet_spot_y) ==
    IF green /\ sweet_spot_y < TOP_EDGE THEN "hold"
    ELSE IF green /\ sweet_spot_y > BOTTOM_EDGE THEN "release"
    ELSE "none"

EdgeSteady(green, sweet_spot_y) ==
    IF green /\ sweet_spot_y < TOP_EDGE THEN "hold"
    ELSE IF green /\ sweet_spot_y > BOTTOM_EDGE THEN "release"
    ELSE IF ~green /\ sweet_spot_y > BOTTOM_EDGE THEN "hold"
    ELSE "none"

\* braking of the remaining drift inside the dead zone: "none" when slow
DriftBrakeFallingOnly(velocity) ==
    IF velocity > DRIFT_VELOCITY * VelDen THEN "hold" ELSE "none"

DriftBrake(velocity) ==
    IF velocity > DRIFT_VELOCITY * VelDen THEN "hold"
    ELSE IF velocity < -(DRIFT_VELOCITY * VelDen) THEN "release"
    ELSE "none"

\* the dead-zone branch of should_hold_mouse
InDeadZone(d, sweet_spot_y) ==
    LET edge == EdgeSteady(d.fish_is_green, sweet_spot_y)
        drift == DriftBrake(d.sweet_spot_velocity)
        d1 == IF ~d.in_dead_zone
              THEN [d EXCEPT !.in_dead_zone = TRUE, !.brake_frames = 0,
                             !.pulse_counter = 0]
              ELSE d
        pulse_counter == PulseNext(d1.pulse_counter)
    IN  IF edge # "none" THEN Ret(d, edge = "hold", "edge")
        ELSE IF drift # "none" THEN Ret(d1, drift = "hold", "drift")
        ELSE Ret([d1 EXCEPT !.pulse_counter = pulse_counter],
                 PulseHold(pulse_counter), "pulse")

\* should_hold_mouse after the velocity update
Decide(d, fish_y, sweet_spot_y) ==
    LET v == d.sweet_spot_velocity
        is_warmup == 10 * Abs(v) < VelDen
        target_y == fish_y - GRAVITY_COMPENSATION
        distance == target_y - sweet_spot_y
        active_dead_zone == IF is_warmup THEN WARMUP_DEAD_ZONE ELSE DEAD_ZONE
    IN  IF IsJump(distance) THEN Ret(d, JumpHold(distance), "jump")
        ELSE IF IsBrake(v, is_warmup) THEN Ret(d, BrakeHold(v), "brake")
        ELSE IF distance < -active_dead_zone
        THEN Ret([d EXCEPT !.in_dead_zone = FALSE], TRUE, "track")
        ELSE IF distance > active_dead_zone
        THEN Ret([d EXCEPT !.in_dead_zone = FALSE], FALSE, "track")
        ELSE InDeadZone(d, sweet_spot_y)

\* d, ret, rule: the new detector state, the return value and the branch taken;
\* fish_y, sweet_spot_y: what the two estimators returned; exact: VelocityExact
ShouldHoldMouse(d0, f) ==
    LET r1 == GetFishPosition(d0, f)
        r2 == GetSweetSpotPosition(r1.d, f)
        fish_y == r1.ret
        sweet_spot_y == r2.ret
        d == r2.d
        r == IF fish_y = None \/ sweet_spot_y = None THEN Tap(d, "missing")
             ELSE IF Stuck(sweet_spot_y, d.sweet_spot_velocity) THEN Tap(d, "stuck")
             ELSE Decide(UpdateVelocity(d, sweet_spot_y), fish_y, sweet_spot_y)
    IN  [d |-> r.d, ret |-> r.ret, rule |-> r.rule,
         fish_y |-> fish_y, sweet_spot_y |-> sweet_spot_y,
         exact |-> r.rule \in {"missing", "stuck"} \/ VelocityExact(d, sweet_spot_y)]

\* ---------------------------------------------------------------- main.py
\* the scripted environments, switched off
NoScript == [phase |-> "off", n |-> 0, green |-> 0, over |-> 0, expired |-> FALSE,
             trace |-> <<>>, clicks |-> 0, caught_clicks |-> 0]

NoSteady == [on |-> FALSE, y |-> None, green |-> FALSE, outs |-> <<>>]

NoSeen == [raw |-> None, last |-> None, warmup |-> None, fish_y |-> None,
           sweet_spot_y |-> None, fish_n |-> None]

\* the interleaved and the actuator specifications, switched off
NoConc == [on |-> FALSE]

NoHist == [on |-> FALSE]

\* the dither specification, switched off
NoRun == [on |-> FALSE]

NoController == out' = "none" /\ rule' = "none" /\ seen' = NoSeen

Init ==
    /\ enabled = FALSE
    /\ running = TRUE
    /\ state = "idle"
    /\ is_holding = FALSE
    /\ idle_duration = None
    /\ consecutive_idle_recasts = 0
    /\ pc = "loop"
    /\ detector = DetectorInit
    /\ mouse = MouseInit
    /\ ev = "none"
    /\ ui = FALSE
    /\ progress = None
    /\ calls = <<>>
    /\ out = "none"
    /\ rule = "none"
    /\ seen = NoSeen
    /\ last_cmd = "none"
    /\ expiries = 0
    /\ anti_afks = 0
    /\ script = NoScript
    /\ steady = NoSteady
    /\ conc = NoConc
    /\ hist = NoHist
    /\ run = NoRun

TimedOutTwice(idle) == idle > 2 * IDLE_TIMEOUT

TimedOut(idle) == idle > IDLE_TIMEOUT

NoBaitStrict(recasts) == recasts > NO_BAIT_THRESHOLD

NoBait(recasts) == recasts >= NO_BAIT_THRESHOLD

HandleIdle(f) ==
    /\ ev' = "idle"
    /\ ui' = IsFishingActive(f)
    /\ progress' = GetProgress(f)
    /\ NoController
    /\ IF IsFishingActive(f)
       THEN /\ detector' = ResetState(detector)
            /\ state' = "fishing"
            /\ idle_duration' = None
            /\ consecutive_idle_recasts' = 0
            /\ mouse' = MouseHold(mouse)
            /\ is_holding' = TRUE
            /\ calls' = <<"hold">>
            /\ last_cmd' = "hold"
            /\ expiries' = 0
            /\ anti_afks' = 0
       ELSE LET idle == IF idle_duration = None THEN 0 ELSE idle_duration
            IN  /\ UNCHANGED <<detector, state, is_holding>>
                /\ IF TimedOut(idle)
                   THEN /\ idle_duration' = 0
                        /\ expiries' = Min(expiries + 1, MaxExpiries)
                        /\ IF NoBait(consecutive_idle_recasts + 1)
                           THEN /\ consecutive_idle_recasts' = 0
                                /\ calls' = <<"anti_afk">>
                                /\ anti_afks' = Min(anti_afks + 1, MaxExpiries)
                                /\ UNCHANGED <<mouse, last_cmd>>
                           ELSE /\ consecutive_idle_recasts' = consecutive_idle_recasts + 1
                                /\ mouse' = MouseClick(mouse)
                                /\ calls' = <<"click">>
                                /\ last_cmd' = "click"
                                /\ UNCHANGED anti_afks
                   ELSE /\ idle_duration' = idle
                        /\ calls' = <<>>
                        /\ UNCHANGED <<consecutive_idle_recasts, mouse, last_cmd,
                                       expiries, anti_afks>>

\* the MouseController calls of the Tracking -> Caught branch of _handle_fishing
CaughtExitCallsAndRecast == <<"release", "click">>

CaughtExitCalls == <<"release">>

HandleFishing(f) ==
    /\ ev' = "fishing"
    /\ ui' = IsFishingActive(f)
    /\ progress' = GetProgress(f)
    /\ UNCHANGED <<idle_duration, consecutive_idle_recasts, expiries, anti_afks>>
    /\ IF IsFishCaught(f)
       THEN /\ mouse' = MouseRelease(mouse)
            /\ is_holding' = FALSE
            /\ state' = "caught"
            /\ calls' = CaughtExitCalls
            /\ last_cmd' = "release"
            /\ NoController
            /\ UNCHANGED detector
       ELSE \E r \in {ShouldHoldMouse(detector, f)} :
                /\ r.exact
                /\ r.d.pulse_counter <= MaxPulse
                /\ detector' = r.d
                /\ mouse' = IF r.ret THEN MouseHold(mouse) ELSE MouseRelease(mouse)
                /\ is_holding' = r.ret
                /\ calls' = IF r.ret THEN <<"hold">> ELSE <<"release">>
                /\ last_cmd' = IF r.ret THEN "hold" ELSE "release"
                /\ out' = IF r.ret THEN "hold" ELSE "release"
                /\ rule' = r.rule
                /\ seen' = [raw |-> f.sweet_raw,
                            last |-> detector.last_sweet_spot_y,
                            warmup |-> detector.warmup_frames,
                            fish_y |-> r.fish_y,
                            sweet_spot_y |-> r.sweet_spot_y,
                            fish_n |-> f.fish_pixels[1] + f.fish_pixels[2]]
                /\ UNCHANGED state

\* the MouseController calls of _handle_caught
RecastCallsNone == <<>>

RecastCalls == <<"click">>

HandleCaught(f) ==
    /\ ev' = "caught"
    /\ ui' = IsFishingActive(f)
    /\ progress' = GetProgress(f)
    /\ NoController
    /\ mouse' = MouseClick(mouse)
    /\ calls' = RecastCalls
    /\ last_cmd' = "click"
    /\ state' = "idle"
    /\ idle_duration' = 0
    /\ UNCHANGED <<detector, is_holding, consecutive_idle_recasts, expiries, anti_afks>>

\* one iteration of run() with enabled set
Tick(f) ==
    /\ pc = "loop"
    /\ running
    /\ enabled
    /\ UNCHANGED <<enabled, running, pc>>
    /\ \/ state = "idle" /\ HandleIdle(f)
       \/ state = "fishing" /\ HandleFishing(f)
       \/ state = "caught" /\ HandleCaught(f)

OnToggle ==
    /\ pc = "loop"
    /\ enabled' = ~enabled
    /\ ev' = "toggle"
    /\ NoController
    /\ IF ~enabled
       THEN /\ state' = "idle"
            /\ idle_duration' = 0
            /\ calls' = <<>>
            /\ UNCHANGED <<mouse, last_cmd>>
       ELSE /\ mouse' = MouseCleanup(mouse)
            /\ calls' = <<"release">>
            /\ last_cmd' = "release"
            /\ UNCHANGED <<state, idle_duration>>
    /\ ui' = FALSE
    /\ progress' = None
    /\ UNCHANGED <<running, is_holding, consecutive_idle_recasts, pc, detector,
                   expiries, anti_afks>>

OnExit ==
    /\ pc = "loop"
    /\ running
    /\ running' = FALSE
    /\ enabled' = FALSE
    /\ ev' = "exit"
    /\ calls' = <<>>
    /\ NoController
    /\ ui' = FALSE
    /\ progress' = None
    /\ UNCHANGED <<state, is_holding, idle_duration, consecutive_idle_recasts, pc,
                   detector, mouse, last_cmd, expiries, anti_afks>>

\* the finally clause of run()
Cleanup ==
    /\ pc = "loop"
    /\ ~running
    /\ pc' = "done"
    /\ ev' = "cleanup"
    /\ mouse' = MouseCleanup(mouse)
    /\ calls' = <<"release">>
    /\ last_cmd' = "release"
    /\ NoController
    /\ ui' = FALSE
    /\ progress' = None
    /\ UNCHANGED <<enabled, running, state, is_holding, idle_duration,
                   consecutive_idle_recasts, detector, expiries, anti_afks>>

\* wall-clock time passing between two steps, in seconds; beyond the timeout the
\* program cannot tell durations apart
TimeSteps == {15, 31}

AdvanceClock(dt) ==
    /\ pc = "loop"
    /\ idle_duration # None
    /\ idle_duration <= IDLE_TIMEOUT
    /\ idle_duration' = Min(idle_duration + dt, IDLE_TIMEOUT + 1)
    /\ ev' = "clock"
    /\ calls' = <<>>
    /\ NoController
    /\ ui' = FALSE
    /\ progress' = None
    /\ UNCHANGED <<enabled, running, state, is_holding, consecutive_idle_recasts, pc,
                   detector, mouse, last_cmd, expiries, anti_afks>>

\* ------------------------------------------------------ the whole program
DoTick == \E f \in Frames : Tick(f) /\ UNCHANGED <<script, steady, conc, hist, run>>

DoToggle == OnToggle /\ UNCHANGED <<script, steady, conc, hist, run>>

DoExit == OnExit /\ UNCHANGED <<script, steady, conc, hist, run>>

DoCleanup == Cleanup /\ UNCHANGED <<script, steady, conc, hist, run>>

DoAdvanceClock == \E dt \in TimeSteps : AdvanceClock(dt) /\ UNCHANGED <<script, steady, conc, hist, run>>

Next == DoTick \/ DoToggle \/ DoExit \/ DoCleanup \/ DoAdvanceClock

Spec == Init /\ [][Next]_vars

\* ------------------------------------------- the controller within a session
\* The state right after the Idle -> FISHING tick; then controller ticks only.
InitCtl ==
    /\ enabled = TRUE
    /\ running = TRUE
    /\ state = "fishing"
    /\ is_holding = TRUE
    /\ idle_duration = None
    /\ consecutive_idle_recasts = 0
    /\ pc = "loop"
    /\ detector = ResetState(DetectorInit)
    /\ mouse = MouseHold(MouseInit)
    /\ ev = "idle"
    /\ ui = TRUE
    /\ progress = None
    /\ calls = <<"hold">>
    /\ out = "none"
    /\ rule = "none"
    /\ seen = NoSeen
    /\ last_cmd = "hold"
    /\ expiries = 0
    /\ anti_afks = 0
    /\ script = NoScript
    /\ steady = NoSteady
    /\ conc = NoConc
    /\ hist = NoHist
    /\ run = NoRun

CtlTick == \E f \in CtlFrames : Tick(f) /\ UNCHANGED <<script, steady, conc, hist, run>>

NextCtl == CtlTick

SpecCtl == InitCtl /\ [][NextCtl]_vars

\* ----------------------------------------------------- a scripted session
\* Automation has just been enabled. The frames show the UI absent for 1 to
\* MaxAbsent ticks, then present for up to MaxPresent ticks with the progress bar
\* rising from 0 to full, then absent for one tick.
\* script.n: ticks in the phase; green: progress-bar pixels of the last frame;
\* over: UI-present ticks with progress > 0.95; expired: an idle timeout expired;
\* trace: the session states passed through; clicks, caught_clicks: click()
\* calls, and those made by _handle_caught.
CycleGreens == {0, 700, 1382, 1455}

CycleFrames ==
    [dark : DarkCounts, blue : BlueCounts, bar_green : CycleGreens,
     fish_pixels : FishPixelPairs, fish_mean : FishMeans, sweet_raw : SweetRaws]

InitCycle ==
    /\ enabled = TRUE
    /\ running = TRUE
    /\ state = "idle"
    /\ is_holding = FALSE
    /\ idle_duration = 0
    /\ consecutive_idle_recasts = 0
    /\ pc = "loop"
    /\ detector = DetectorInit
    /\ mouse = MouseInit
    /\ ev = "toggle"
    /\ ui = FALSE
    /\ progress = None
    /\ calls = <<>>
    /\ out = "none"
    /\ rule = "none"
    /\ seen = NoSeen
    /\ last_cmd = "none"
    /\ expiries = 0
    /\ anti_afks = 0
    /\ script = [NoScript EXCEPT !.phase = "start", !.trace = <<"idle">>]
    /\ steady = NoSteady
    /\ conc = NoConc
    /\ hist = NoHist
    /\ run = NoRun

\* the phase and frame of the next scripted tick
ScriptSteps ==
    {<<"absent", f>> : f \in {g \in CycleFrames : ~IsFishingActive(g) /\ g.bar_green = 0}}
        \cup
    {<<"present", f>> : f \in {g \in CycleFrames : IsFishingActive(g)}}
        \cup
    {<<"end", f>> : f \in {g \in CycleFrames : ~IsFishingActive(g) /\ g.bar_green = 0}}

ScriptAllows(phase, f) ==
    \/ /\ phase = "absent"
       /\ \/ script.phase = "start"
          \/ script.phase = "absent" /\ script.n < MaxAbsent
    \/ /\ phase = "present"
       /\ \/ script.phase = "absent" /\ f.bar_green = 0
          \/ /\ script.phase = "present"
             /\ script.n < MaxPresent
             /\ f.bar_green >= script.green
    \/ /\ phase = "end"
       /\ script.phase = "present"
       /\ GetProgress([bar_green |-> script.green]) = 100000

CycleTick ==
    \E st \in ScriptSteps :
        /\ ScriptAllows(st[1], st[2])
        /\ Tick(st[2])
        /\ script' =
             [phase |-> st[1],
              n |-> IF st[1] = script.phase THEN script.n + 1 ELSE 1,
              green |-> st[2].bar_green,
              over |-> IF st[1] = "present"
                          /\ GetProgress(st[2]) > PROGRESS_DONE * 1000
                       THEN script.over + 1
                       ELSE script.over,
              expired |-> \/ script.expired
                          \/ /\ state = "idle"
                             /\ ~IsFishingActive(st[2])
                             /\ idle_duration # None
                             /\ idle_duration > IDLE_TIMEOUT,
              trace |-> IF state' # state THEN Append(script.trace, state')
                        ELSE script.trace,
              clicks |-> script.clicks
                           + Cardinality({i \in DOMAIN calls' : calls'[i] = "click"}),
              caught_clicks |-> script.caught_clicks
                           + IF ev' = "caught" /\ calls' = <<"click">> THEN 1 ELSE 0]
        /\ UNCHANGED <<steady, conc, hist, run>>

CycleAdvance ==
    \E dt \in TimeSteps :
        /\ script.phase # "end"
        /\ AdvanceClock(dt)
        /\ UNCHANGED <<script, steady, conc, hist, run>>

NextCycle == CycleTick \/ CycleAdvance

SpecCycle == InitCycle /\ [][NextCycle]_vars

\* ------------------------------------------------------------ a steady run
\* Controller ticks on which target and actor estimates both equal steady.y and
\* the smoothed velocity is 0, from any ControllerPhase.
\* steady.outs: the controller's outputs so far.
SteadyValues == {40, 70, 100, 150, 151, 250, 260}

InitSteady ==
    \E y \in SteadyValues, green, hold, dz \in BOOLEAN,
       pulse \in 0 .. (PULSE_HOLD_FRAMES + PULSE_RELEASE_FRAMES - 1) :
        /\ enabled = TRUE
        /\ running = TRUE
        /\ state = "fishing"
        /\ is_holding = hold
        /\ idle_duration = None
        /\ consecutive_idle_recasts = 0
        /\ pc = "loop"
        /\ detector =
             [last_fish_y |-> y, last_sweet_spot_y |-> y, fish_is_green |-> green,
              prev_sweet_spot_y |-> y, sweet_spot_velocity |-> 0,
              is_holding |-> hold, hold_frames |-> 0, pulse_counter |-> pulse,
              warmup_frames |-> 0, in_dead_zone |-> dz, brake_frames |-> 0]
        /\ mouse = [is_holding |-> hold, button |-> hold]
        /\ ev = "none"
        /\ ui = FALSE
        /\ progress = None
        /\ calls = <<>>
        /\ out = "none"
        /\ rule = "none"
        /\ seen = NoSeen
        /\ last_cmd = IF hold THEN "hold" ELSE "release"
        /\ expiries = 0
        /\ anti_afks = 0
        /\ script = NoScript
        /\ steady = [on |-> TRUE, y |-> y, green |-> green, outs |-> <<>>]
        /\ conc = NoConc
        /\ hist = NoHist
        /\ run = NoRun

SteadyFrame ==
    [dark |-> 2700, blue |-> 1400, bar_green |-> 0,
     fish_pixels |-> IF steady.green THEN <<0, 40>> ELSE <<40, 0>>,
     fish_mean |-> steady.y + GRAVITY_COMPENSATION
                     - (IF steady.green THEN GREEN_OFFSET ELSE WHITE_OFFSET),
     sweet_raw |-> steady.y]

SteadyTick ==
    /\ steady.on
    /\ Len(steady.outs) < MaxSteadyTicks
    /\ Tick(SteadyFrame)
    /\ steady' = [steady EXCEPT !.outs = Append(@, out')]
    /\ UNCHANGED <<script, conc, hist, run>>

NextSteady == SteadyTick

SpecSteady == InitSteady /\ [][NextSteady]_vars

\* ------------------------------------------------- the actuator on its own
\* Any sequence of up to MaxCalls hold(), release() and click() calls on a fresh
\* MouseController. hist.calls: the calls so far; events: the OS events sent so
\* far; pre: is_holding before the last call; sent: the events of the last call.
InitMouse ==
    /\ enabled = FALSE
    /\ running = TRUE
    /\ state = "idle"
    /\ is_holding = FALSE
    /\ idle_duration = None
    /\ consecutive_idle_recasts = 0
    /\ pc = "loop"
    /\ detector = DetectorInit
    /\ mouse = MouseInit
    /\ ev = "none"
    /\ ui = FALSE
    /\ progress = None
    /\ calls = <<>>
    /\ out = "none"
    /\ rule = "none"
    /\ seen = NoSeen
    /\ last_cmd = "none"
    /\ expiries = 0
    /\ anti_afks = 0
    /\ script = NoScript
    /\ steady = NoSteady
    /\ conc = NoConc
    /\ hist = [on |-> TRUE, calls |-> <<>>, events |-> <<>>, pre |-> FALSE,
               sent |-> <<>>]
    /\ run = NoRun

MouseCall(name, m, sent) ==
    /\ hist.on
    /\ Len(hist.calls) < MaxCalls
    /\ mouse' = m
    /\ last_cmd' = name
    /\ hist' = [on |-> TRUE, calls |-> Append(hist.calls, name),
                events |-> hist.events \o sent, pre |-> mouse.is_holding,
                sent |-> sent]
    /\ UNCHANGED <<enabled, running, state, is_holding, idle_duration,
                   consecutive_idle_recasts, pc, detector, ev, ui, progress, calls,
                   out, rule, seen, expiries, anti_afks, script, steady, conc,
                   run>>

CallHold == MouseCall("hold", MouseHold(mouse), HoldEvents(mouse))

CallRelease == MouseCall("release", MouseRelease(mouse), ReleaseEvents(mouse))

CallClick == MouseCall("click", MouseClick(mouse), ClickEvents(mouse))

NextMouse == CallHold \/ CallRelease \/ CallClick

SpecMouse == InitMouse /\ [][NextMouse]_vars

\* ------------------------------------------ the loop and the hotkey thread
\* run() on the main thread and the hotkey callbacks on the keyboard hook's
\* thread, interleaved statement by statement; a handler body, and each
\* MouseController call, is one step. Collaborator calls may raise.
\* conc.main: position of run(): "while" (testing self.running), "if" (testing
\*   self.enabled), "tick" (_tick about to grab and dispatch), "handler" (inside
\*   handler conc.h with frame conc.f), "finally" (_cleanup about to release the
\*   mouse), "close" (about to close the capture), "done" (run() has returned or
\*   raised);
\* conc.cb: position of the hotkey thread; conc.keys: presses handled so far;
\* conc.armed: a toggle has set enabled and no tick was dispatched since;
\* conc.timer: who wrote idle_start_time last; conc.late: ticks dispatched after
\*   running was set to False; conc.cleanups: runs of _cleanup; conc.closed: the
\*   capture is closed; conc.err: the exception in flight.
ConcFrames == {f \in Frames : f.blue = 1400 /\ f.fish_pixels = <<0, 40>>}

InitConc ==
    /\ enabled = FALSE
    /\ running = TRUE
    /\ state = "idle"
    /\ is_holding = FALSE
    /\ idle_duration = None
    /\ consecutive_idle_recasts = 0
    /\ pc = "loop"
    /\ detector = DetectorInit
    /\ mouse = MouseInit
    /\ ev = "none"
    /\ ui = FALSE
    /\ progress = None
    /\ calls = <<>>
    /\ out = "none"
    /\ rule = "none"
    /\ seen = NoSeen
    /\ last_cmd = "none"
    /\ expiries = 0
    /\ anti_afks = 0
    /\ script = NoScript
    /\ steady = NoSteady
    /\ hist = NoHist
    /\ run = NoRun
    /\ conc = [on |-> TRUE, main |-> "while", h |-> "none", f |-> None,
               cb |-> "none", keys |-> 0, armed |-> FALSE, timer |-> "none",
               late |-> 0, cleanups |-> 0, closed |-> FALSE, err |-> "none"]

\* a step that calls no handler
Quiet(name) ==
    /\ ev' = name
    /\ ui' = FALSE
    /\ progress' = None
    /\ calls' = <<>>
    /\ NoController

ConcFrame == UNCHANGED <<script, steady, hist, run, pc, expiries, anti_afks>>

\* while self.running:
LoopWhile ==
    /\ conc.on /\ conc.main = "while"
    /\ conc' = [conc EXCEPT !.main = IF running THEN "if" ELSE "finally"]
    /\ Quiet("loop")
    /\ ConcFrame
    /\ UNCHANGED <<enabled, running, state, is_holding, idle_duration,
                   consecutive_idle_recasts, detector, mouse, last_cmd>>

\* if self.enabled: ... time.sleep(LOOP_DELAY)
LoopIf ==
    /\ conc.on /\ conc.main = "if"
    /\ conc' = [conc EXCEPT !.main = IF enabled THEN "tick" ELSE "while"]
    /\ Quiet("loop")
    /\ ConcFrame
    /\ UNCHANGED <<enabled, running, state, is_holding, idle_duration,
                   consecutive_idle_recasts, detector, mouse, last_cmd>>

\* _tick: frame = self.capture.grab(), then the dispatch on self.state
TickDispatch(f) ==
    /\ conc.on /\ conc.main = "tick"
    /\ conc' = [conc EXCEPT !.main = "handler", !.h = state, !.f = f,
                            !.armed = FALSE,
                            !.late = IF running THEN @ ELSE Min(@ + 1, 2)]
    /\ Quiet("dispatch")
    /\ ConcFrame
    /\ UNCHANGED <<enabled, running, state, is_holding, idle_duration,
                   consecutive_idle_recasts, detector, mouse, last_cmd>>

\* the body of the handler dispatched to, then time.sleep(LOOP_DELAY)
TickHandler ==
    /\ conc.on /\ conc.main = "handler"
    /\ \/ conc.h = "idle" /\ HandleIdle(conc.f)
       \/ conc.h = "fishing" /\ HandleFishing(conc.f)
       \/ conc.h = "caught" /\ HandleCaught(conc.f)
    /\ conc' = [conc EXCEPT !.main = "while", !.h = "none", !.f = None,
                            !.timer = IF idle_duration' # idle_duration
                                         \/ ev' = "caught"
                                      THEN "tick" ELSE @]
    /\ UNCHANGED <<enabled, running, pc, script, steady, hist, run>>

\* self.capture.grab() raises
GrabFails ==
    /\ conc.on /\ conc.main = "tick"
    /\ conc' = [conc EXCEPT !.main = "finally", !.err = "grab"]
    /\ Quiet("raise")
    /\ ConcFrame
    /\ UNCHANGED <<enabled, running, state, is_holding, idle_duration,
                   consecutive_idle_recasts, detector, mouse, last_cmd>>

\* what a MouseController call leaves behind when one of its OS calls raises
\* (the failed OS call itself has no effect on the button)
HoldFailOutcomes(m) == IF m.is_holding THEN {} ELSE {m}

ReleaseFailOutcomes(m) == IF m.is_holding THEN {m} ELSE {}

ClickFailOutcomes(m) ==
    ReleaseFailOutcomes(m)
        \cup {[is_holding |-> FALSE, button |-> FALSE],
              [is_holding |-> FALSE, button |-> TRUE]}

\* the handler's MouseController call raises: the statements before the call
\* have run, those after it have not
HandlerFails ==
    /\ conc.on /\ conc.main = "handler"
    /\ conc' = [conc EXCEPT !.main = "finally", !.h = "none", !.f = None,
                            !.err = "actuator"]
    /\ Quiet("raise")
    /\ ConcFrame
    /\ UNCHANGED <<enabled, running, is_holding, last_cmd>>
    /\ \/ /\ conc.h = "idle" /\ IsFishingActive(conc.f)
          /\ detector' = ResetState(detector)
          /\ state' = "fishing"
          /\ idle_duration' = None
          /\ consecutive_idle_recasts' = 0
          /\ mouse' \in HoldFailOutcomes(mouse)
       \/ /\ conc.h = "idle" /\ ~IsFishingActive(conc.f)
          /\ idle_duration # None /\ TimedOut(idle_duration)
          /\ ~NoBait(consecutive_idle_recasts + 1)
          /\ consecutive_idle_recasts' = consecutive_idle_recasts + 1
          /\ mouse' \in ClickFailOutcomes(mouse)
          /\ UNCHANGED <<detector, state, idle_duration>>
       \/ /\ conc.h = "fishing" /\ IsFishCaught(conc.f)
          /\ mouse' \in ReleaseFailOutcomes(mouse)
          /\ UNCHANGED <<detector, state, idle_duration, consecutive_idle_recasts>>
       \/ /\ conc.h = "fishing" /\ ~IsFishCaught(conc.f)
          /\ \E r \in {ShouldHoldMouse(detector, conc.f)} :
                /\ r.exact
                /\ r.d.pulse_counter <= MaxPulse
                /\ detector' = r.d
                /\ mouse' \in IF r.ret THEN HoldFailOutcomes(mouse)
                               ELSE ReleaseFailOutcomes(mouse)
          /\ UNCHANGED <<state, idle_duration, consecutive_idle_recasts>>
       \/ /\ conc.h = "caught"
          /\ mouse' \in ClickFailOutcomes(mouse)
          /\ UNCHANGED <<detector, state, idle_duration, consecutive_idle_recasts>>

\* _cleanup: self.mouse.cleanup()
TeardownMouse ==
    /\ conc.on /\ conc.main = "finally"
    /\ conc' = [conc EXCEPT !.main = "close", !.cleanups = Min(@ + 1, 2)]
    /\ mouse' = MouseCleanup(mouse)
    /\ ev' = "cleanup"
    /\ ui' = FALSE
    /\ progress' = None
    /\ calls' = <<"release">>
    /\ last_cmd' = "release"
    /\ NoController
    /\ ConcFrame
    /\ UNCHANGED <<enabled, running, state, is_holding, idle_duration,
                   consecutive_idle_recasts, detector>>

\* _cleanup after an actuator failure: the OS release raises again, and the
\* exception leaves _cleanup before the capture is closed
TeardownMouseFails ==
    /\ conc.on /\ conc.main = "finally"
    /\ conc.err = "actuator"
    /\ mouse.is_holding
    /\ conc' = [conc EXCEPT !.main = "done", !.cleanups = Min(@ + 1, 2)]
    /\ pc' = "done"
    /\ Quiet("raise")
    /\ UNCHANGED <<script, steady, hist, run, expiries, anti_afks>>
    /\ UNCHANGED <<enabled, running, state, is_holding, idle_duration,
                   consecutive_idle_recasts, detector, mouse, last_cmd>>

\* _cleanup: self.capture.close() ... keyboard.unhook_all(); run() returns, or
\* the exception in flight leaves it
TeardownClose ==
    /\ conc.on /\ conc.main = "close"
    /\ conc' = [conc EXCEPT !.main = "done", !.closed = TRUE]
    /\ pc' = "done"
    /\ Quiet("cleanup")
    /\ UNCHANGED <<script, steady, hist, run, expiries, anti_afks>>
    /\ UNCHANGED <<enabled, running, state, is_holding, idle_duration,
                   consecutive_idle_recasts, detector, mouse, last_cmd>>

KeyPress == conc.on /\ conc.cb = "none" /\ conc.keys < MaxKeys /\ conc.main # "done"

\* _on_toggle: self.enabled = not self.enabled
ToggleFlip ==
    /\ KeyPress
    /\ enabled' = ~enabled
    /\ conc' = [conc EXCEPT !.cb = IF ~enabled THEN "toggle_state"
                                   ELSE "toggle_cleanup",
                            !.keys = @ + 1,
                            !.armed = IF ~enabled THEN TRUE ELSE @]
    /\ Quiet("toggle")
    /\ ConcFrame
    /\ UNCHANGED <<running, state, is_holding, idle_duration,
                   consecutive_idle_recasts, detector, mouse, last_cmd>>

\* _on_toggle: self.state = FishingState.IDLE
ToggleState ==
    /\ conc.on /\ conc.cb = "toggle_state"
    /\ state' = "idle"
    /\ conc' = [conc EXCEPT !.cb = "toggle_timer"]
    /\ Quiet("toggle")
    /\ ConcFrame
    /\ UNCHANGED <<enabled, running, is_holding, idle_duration,
                   consecutive_idle_recasts, detector, mouse, last_cmd>>

\* _on_toggle: self.idle_start_time = time.time()
ToggleTimer ==
    /\ conc.on /\ conc.cb = "toggle_timer"
    /\ idle_duration' = 0
    /\ conc' = [conc EXCEPT !.cb = "none", !.timer = "toggle"]
    /\ Quiet("toggle")
    /\ ConcFrame
    /\ UNCHANGED <<enabled, running, state, is_holding,
                   consecutive_idle_recasts, detector, mouse, last_cmd>>

\* _on_toggle: self.mouse.cleanup()
ToggleCleanup ==
    /\ conc.on /\ conc.cb = "toggle_cleanup"
    /\ mouse' = MouseCleanup(mouse)
    /\ conc' = [conc EXCEPT !.cb = "none"]
    /\ ev' = "toggle"
    /\ ui' = FALSE
    /\ progress' = None
    /\ calls' = <<"release">>
    /\ last_cmd' = "release"
    /\ NoController
    /\ ConcFrame
    /\ UNCHANGED <<enabled, running, state, is_holding, idle_duration,
                   consecutive_idle_recasts, detector>>

\* _on_exit: self.running = False
ExitRunning ==
    /\ KeyPress
    /\ running' = FALSE
    /\ conc' = [conc EXCEPT !.cb = "exit_enabled", !.keys = @ + 1]
    /\ Quiet("exit")
    /\ ConcFrame
    /\ UNCHANGED <<enabled, state, is_holding, idle_duration,
                   consecutive_idle_recasts, detector, mouse, last_cmd>>

\* _on_exit: self.enabled = False
ExitEnabled ==
    /\ conc.on /\ conc.cb = "exit_enabled"
    /\ enabled' = FALSE
    /\ conc' = [conc EXCEPT !.cb = "none"]
    /\ Quiet("exit")
    /\ ConcFrame
    /\ UNCHANGED <<running, state, is_holding, idle_duration,
                   consecutive_idle_recasts, detector, mouse, last_cmd>>

ConcTickDispatch == \E f \in ConcFrames : TickDispatch(f)

ConcAdvanceClock ==
    \E dt \in TimeSteps :
        /\ conc.on
        /\ expiries < MaxConcExpiries
        /\ AdvanceClock(dt)
        /\ UNCHANGED <<script, steady, conc, hist, run>>

NextConc ==
    \/ LoopWhile \/ LoopIf \/ ConcTickDispatch \/ TickHandler
    \/ GrabFails \/ HandlerFails
    \/ TeardownMouse \/ TeardownMouseFails \/ TeardownClose
    \/ ToggleFlip \/ ToggleState \/ ToggleTimer \/ ToggleCleanup
    \/ ExitRunning \/ ExitEnabled
    \/ ConcAdvanceClock

SpecConc == InitConc /\ [][NextConc]_vars

\* ------------------------------------------------------------- dither runs
\* Controller ticks after the Idle -> FISHING tick, on frames whose marker is
\* missing or white and whose actor row is missing, at the seed value or 10 rows
\* below it. run.outs, run.rules: outputs and branches of the current run of
\* consecutive ticks answered by the missing-data or the stuck-at-seed branch;
\* run.start: pulse_counter before the first tick of that run. A tick answered
\* by another branch ends the run.
DitherFishDetections == {<<0, 0, 168>>, <<40, 0, 168>>}
DitherSweetRaws == {None, 150, 160}

DitherFrames ==
    {[dark |-> 2700, blue |-> 1400, bar_green |-> 0,
      fish_pixels |-> <<fd[1], fd[2]>>, fish_mean |-> fd[3], sweet_raw |-> sr] :
        fd \in DitherFishDetections, sr \in DitherSweetRaws}

NoDitherRun == [on |-> TRUE, start |-> None, outs |-> <<>>, rules |-> <<>>]

InitDither ==
    /\ enabled = TRUE
    /\ running = TRUE
    /\ state = "fishing"
    /\ is_holding = TRUE
    /\ idle_duration = None
    /\ consecutive_idle_recasts = 0
    /\ pc = "loop"
    /\ detector = ResetState(DetectorInit)
    /\ mouse = MouseHold(MouseInit)
    /\ ev = "idle"
    /\ ui = TRUE
    /\ progress = None
    /\ calls = <<"hold">>
    /\ out = "none"
    /\ rule = "none"
    /\ seen = NoSeen
    /\ last_cmd = "hold"
    /\ expiries = 0
    /\ anti_afks = 0
    /\ script = NoScript
    /\ steady = NoSteady
    /\ conc = NoConc
    /\ hist = NoHist
    /\ run = NoDitherRun

DitherTick ==
    /\ run.on
    /\ \E f \in DitherFrames : Tick(f)
    /\ IF rule' \in {"missing", "stuck"}
       THEN /\ Len(run.outs) < MaxDitherRun
            /\ run' = [on |-> TRUE,
                       start |-> IF run.outs = <<>> THEN detector.pulse_counter
                                 ELSE run.start,
                       outs |-> Append(run.outs, out'),
                       rules |-> Append(run.rules, rule')]
       ELSE run' = NoDitherRun
    /\ UNCHANGED <<script, steady, conc, hist>>

NextDither == DitherTick

SpecDither == InitDither /\ [][NextDither]_vars

\* -------------------------------------------------------- one controller tick
\* One Tracking tick from any of a set of tracker and controller states of a
\* running session: the actor near either end of the bar or at the seed value,
\* the smoothed velocity still, slow, drifting or fast in either direction, any
\* phase of the pulse cycle. The frame shows the marker white, green or not at
\* all, at the actor's row or up to 15 rows from it, and the actor's gap at a
\* row inside or outside the accepted band.
PhaseActors == {40, 60, 150, 260}
PhaseTargets == {40, 60, 75, 150, 260}
PhaseVelocities == {-20, -10, -4, 0, 4, 10, 20}
PhaseWarmups == {0, 3}
PhaseSweetRaws == {None, 10, 40, 60, 150, 260, 290}

PhaseFishDetections ==
    {<<0, 0, 168>>}
        \cup {<<40, 0, t + GRAVITY_COMPENSATION - WHITE_OFFSET>> : t \in PhaseTargets}
        \cup {<<0, 40, t + GRAVITY_COMPENSATION - GREEN_OFFSET>> : t \in PhaseTargets}

PhaseFrames ==
    {[dark |-> 2700, blue |-> 1400, bar_green |-> 0,
      fish_pixels |-> <<fd[1], fd[2]>>, fish_mean |-> fd[3], sweet_raw |-> sr] :
        fd \in PhaseFishDetections, sr \in PhaseSweetRaws}

InitPhase ==
    \E y \in PhaseActors, v \in PhaseVelocities, w \in PhaseWarmups,
       dz \in BOOLEAN, pulse \in 0 .. (PULSE_HOLD_FRAMES + PULSE_RELEASE_FRAMES - 1) :
        /\ enabled = TRUE
        /\ running = TRUE
        /\ state = "fishing"
        /\ is_holding = TRUE
        /\ idle_duration = None
        /\ consecutive_idle_recasts = 0
        /\ pc = "loop"
        /\ detector =
             [last_fish_y |-> None, last_sweet_spot_y |-> y, fish_is_green |-> FALSE,
              prev_sweet_spot_y |-> y, sweet_spot_velocity |-> v * VelDen,
              is_holding |-> TRUE, hold_frames |-> 0, pulse_counter |-> pulse,
              warmup_frames |-> w, in_dead_zone |-> dz, brake_frames |-> 0]
        /\ mouse = MouseHold(MouseInit)
        /\ ev = "none"
        /\ ui = FALSE
        /\ progress = None
        /\ calls = <<>>
        /\ out = "none"
        /\ rule = "none"
        /\ seen = NoSeen
        /\ last_cmd = "hold"
        /\ expiries = 0
        /\ anti_afks = 0
        /\ script = NoScript
        /\ steady = NoSteady
        /\ conc = NoConc
        /\ hist = NoHist
        /\ run = NoRun

\* the tick of the drawn state; nothing after it
PhaseTick ==
    /\ ev = "none"
    /\ \E f \in PhaseFrames : Tick(f)
    /\ UNCHANGED <<script, steady, conc, hist, run>>

NextPhase == PhaseTick

SpecPhase == InitPhase /\ [][NextPhase]_vars

\* ------------------------------------------------------ the program, fairly
\* The whole program on frames that show the minigame UI or not, with the two
\* things that keep happening while the process lives: run() comes round to
\* its next iteration (time.sleep(LOOP_DELAY) returns), and wall-clock time
\* passes. Which frames the screen shows is left to the environment; fairness
\* is asked of the ticks on frames without the UI only, so that it never forces
\* the UI to appear.
LiveFrames ==
    [dark : DarkCounts, blue : BlueCounts, bar_green : {1381},
     fish_pixels : {<<0, 40>>}, fish_mean : FishMeans, sweet_raw : SweetRaws]

LiveTick == \E f \in LiveFrames : Tick(f) /\ UNCHANGED <<script, steady, conc, hist, run>>

LiveTickNoUi ==
    \E f \in LiveFrames :
        ~IsFishingActive(f) /\ Tick(f) /\ UNCHANGED <<script, steady, conc, hist, run>>

NextLive == LiveTick \/ DoToggle \/ DoExit \/ DoCleanup \/ DoAdvanceClock

SpecLive ==
    /\ Init
    /\ [][NextLive]_vars
    /\ WF_vars(LiveTickNoUi)
    /\ WF_vars(DoAdvanceClock)

\* ------------------------------------------------- a far constant detection
\* Controller ticks after the Idle -> FISHING tick. The actor's gap is detected
\* at row 160 on the first tick and at row 160 or 220 on every later tick; run()
\* keeps coming round to its next tick.
ReacquireSweetRaws == {160, 220}

ReacquireFrames ==
    {[dark |-> 2700, blue |-> 1400, bar_green |-> 0,
      fish_pixels |-> <<fd[1], fd[2]>>, fish_mean |-> fd[3], sweet_raw |-> sr] :
        fd \in CtlFishDetections, sr \in ReacquireSweetRaws}

ReacquireTick ==
    /\ \E f \in ReacquireFrames :
           /\ rule = "none" => f.sweet_raw = 160
           /\ Tick(f)
    /\ UNCHANGED <<script, steady, conc, hist, run>>

NextReacquire == ReacquireTick

SpecReacquire == InitCtl /\ [][NextReacquire]_vars /\ WF_vars(ReacquireTick)

\* ================================================================ claims
Range(q) == {q[i] : i \in DOMAIN q}

\* a step that was an Idle tick on which the idle timeout had expired
ExpiryTick ==
    /\ ev' = "idle"
    /\ ~ui'
    /\ state = "idle"
    /\ idle_duration # None
    /\ idle_duration > IDLE_TIMEOUT

\* C2: after n consecutive idle-timeout expiries with no UI-present tick between
\* them, exactly n \div NO_BAIT_THRESHOLD anti-idle actions have run (one after
\* the K-th), and right after each of them consecutive_idle_recasts is 0.
C2_IdleEscalation ==
    expiries < MaxExpiries =>
        /\ anti_afks = expiries \div NO_BAIT_THRESHOLD
        /\ (expiries > 0 /\ expiries % NO_BAIT_THRESHOLD = 0
                => consecutive_idle_recasts = 0)

C2_Witness ==
    /\ ev = "idle"
    /\ calls = <<"anti_afk">>
    /\ expiries = NO_BAIT_THRESHOLD
    /\ anti_afks = 1
    /\ consecutive_idle_recasts = 0

C4_SeededAndHolding ==
    [][(state = "idle" /\ state' = "fishing") =>
         /\ detector'.last_sweet_spot_y = 150
         /\ is_holding'
         /\ mouse'.is_holding]_vars

C4_Witness ==
    /\ ev = "idle"
    /\ state = "fishing"
    /\ detector.last_sweet_spot_y = 150
    /\ is_holding
    /\ mouse.is_holding

\* C5 as claimed: FishingDetector.is_holding equals the last hold/release command
\* issued to the actuator (true after hold, false after release or click).
C5_DetectorMirrorsActuator ==
    last_cmd # "none" => (detector.is_holding <=> last_cmd = "hold")

ControllerTick == rule # "none"

GlitchSeen ==
    /\ ControllerTick
    /\ seen.raw # None
    /\ seen.raw >= EDGE_MIN
    /\ seen.raw <= EDGE_MAX
    /\ seen.last # None
    /\ Abs(seen.raw - seen.last) > MAX_SWEET_SPOT_JUMP

\* C6: after the warmup window, a raw actor detection more than
\* MAX_SWEET_SPOT_JUMP away from the last accepted estimate is rejected: the
\* previous estimate is returned and last_sweet_spot_y is unchanged.
C6_GlitchRejected ==
    (/\ ControllerTick
     /\ seen.warmup = 0
     /\ seen.raw # None
     /\ seen.last # None
     /\ Abs(seen.raw - seen.last) > MAX_SWEET_SPOT_JUMP)
    => (seen.sweet_spot_y = seen.last /\ detector.last_sweet_spot_y = seen.last)

C6_Witness == GlitchSeen /\ seen.warmup = 0 /\ seen.sweet_spot_y = seen.last

\* C7 as claimed: during the warmup window a raw detection inside the valid row
\* range whose jump exceeds MAX_SWEET_SPOT_JUMP is accepted.
C7_WarmupBypass ==
    (GlitchSeen /\ seen.warmup > 0)
    => (seen.sweet_spot_y = seen.raw /\ detector.last_sweet_spot_y = seen.raw)

BothKnown == ControllerTick /\ seen.fish_y # None /\ seen.sweet_spot_y # None

SeenDistance == (seen.fish_y - GRAVITY_COMPENSATION) - seen.sweet_spot_y

LargeError ==
    /\ BothKnown
    /\ Abs(SeenDistance) > MEDIUM_JUMP_THRESHOLD
    /\ detector.sweet_spot_velocity = 0

Sustained ==
    /\ out = IF SeenDistance < 0 THEN "hold" ELSE "release"
    /\ rule \notin {"missing", "stuck", "pulse"}

\* C9 as claimed: with both positions known, |target - actor| > 30 and velocity
\* 0, the controller holds when the target is above and releases when it is
\* below, for every actor value.
C9_LargeErrorAnyActor == LargeError => Sustained

\* C9 amended: the same for every actor estimate other than the seed value 150,
\* at which the stuck-at-seed dither takes priority while |velocity| < 0.5.
C9_LargeErrorOffSeed == (LargeError /\ seen.sweet_spot_y # STUCK_VALUE) => Sustained

C9_Witness ==
    /\ LargeError
    /\ seen.sweet_spot_y # STUCK_VALUE
    /\ out = "release"
    /\ detector.in_dead_zone

\* C10: with both positions known, |target - actor| <= 30 and |smoothed velocity|
\* > BRAKE_VELOCITY, the controller commands the direction opposing the velocity
\* (falling fast: hold, rising fast: release), never the pulse cycle.
C10_BrakePrecedence ==
    (/\ BothKnown
     /\ Abs(SeenDistance) <= MEDIUM_JUMP_THRESHOLD
     /\ Abs(detector.sweet_spot_velocity) > BRAKE_VELOCITY * VelDen)
    => /\ out = IF detector.sweet_spot_velocity > 0 THEN "hold" ELSE "release"
       /\ rule \notin {"missing", "stuck", "pulse"}

C10_Witness ==
    /\ BothKnown
    /\ Abs(SeenDistance) <= DEAD_ZONE
    /\ detector.sweet_spot_velocity > BRAKE_VELOCITY * VelDen
    /\ rule = "brake"
    /\ out = "hold"

ScriptedCycleDone ==
    /\ script.trace = <<"idle", "fishing", "caught", "idle">>
    /\ script.clicks = 1
    /\ script.caught_clicks = 1

\* C1 as claimed: at the end of a scripted sequence (UI absent for some ticks,
\* present with progress rising from 0 to 1.0, absent for one tick, no idle
\* timeout expiring meanwhile) the session has gone Idle -> FISHING -> CAUGHT ->
\* Idle exactly once and exactly one click() was issued, by _handle_caught.
C1_SessionCycleOnce ==
    (script.phase = "end" /\ ~script.expired) => ScriptedCycleDone

\* C1 amended: the same, provided progress exceeds 0.95 on at most the last two
\* UI-present ticks.
C1_SessionCycleOnceShortTail ==
    (script.phase = "end" /\ ~script.expired /\ script.over <= 2) => ScriptedCycleDone

C1_Witness ==
    /\ script.phase = "end"
    /\ ~script.expired
    /\ script.over = 2
    /\ ScriptedCycleDone
    /\ state = "idle"

Releases(q, i, j) == Cardinality({k \in i .. j : q[k] = "release"})

\* every window of at least 20 consecutive outputs has hold : release =
\* PULSE_HOLD_FRAMES : PULSE_RELEASE_FRAMES within one cycle
DutyCycle(q) ==
    \A i, j \in 1 .. Len(q) :
        j - i + 1 >= 20 =>
            Abs((j - i + 1 - Releases(q, i, j)) * PULSE_RELEASE_FRAMES
                    - Releases(q, i, j) * PULSE_HOLD_FRAMES)
                <= PULSE_HOLD_FRAMES + PULSE_RELEASE_FRAMES

\* C8 as claimed: for any fixed value at which target and actor estimates are
\* equal on every tick with velocity 0, any 20 or more consecutive outputs have a
\* hold : release ratio of 5 : 1 within one cycle's rounding.
C8_DutyCycleAnyValue == steady.on => DutyCycle(steady.outs)

\* C8 amended: the same for any fixed value other than the seed 150 (4-tick
\* dither there) that is outside the dead zone's edge bands: not above 250
\* (steady release with a green marker, steady hold with a white one), and not
\* below 70 while the target marker is green (steady hold).
C8_DutyCycleOffEdge ==
    (/\ steady.on
     /\ steady.y # STUCK_VALUE
     /\ steady.y <= BOTTOM_EDGE
     /\ (steady.y >= TOP_EDGE \/ ~steady.green))
    => DutyCycle(steady.outs)

C8_Witness ==
    /\ steady.on
    /\ steady.y < TOP_EDGE
    /\ ~steady.green
    /\ Len(steady.outs) >= 20
    /\ Releases(steady.outs, 1, Len(steady.outs)) >= 3
    /\ rule = "pulse"

TickEvents == {"idle", "fishing", "caught"}

MouseCalls(q) == Cardinality({i \in DOMAIN q : q[i] \in {"hold", "release", "click"}})

\* C11: a Tracking tick whose frame shows no UI, or progress above 0.95, issues
\* release, moves to Caught and does not run the controller: the detector's
\* fields are unchanged and the button is not held afterwards.
C11_TrackingExit ==
    [][(ev' = "fishing" /\ (~ui' \/ progress' > PROGRESS_DONE * 1000)) =>
         /\ calls' = <<"release">>
         /\ state' = "caught"
         /\ detector' = detector
         /\ rule' = "none"
         /\ ~mouse'.button
         /\ ~mouse'.is_holding
         /\ ~is_holding']_vars

C11_Witness ==
    /\ ev = "fishing"
    /\ ui
    /\ progress > PROGRESS_DONE * 1000
    /\ state = "caught"
    /\ calls = <<"release">>
    /\ ~mouse.button
    /\ detector.pulse_counter > 0

C13_TrackingEntry ==
    [][(state = "idle" /\ state' = "fishing") =>
         /\ ev' = "idle"
         /\ ui'
         /\ calls' = <<"hold">>
         /\ detector' =
              [last_fish_y |-> None, last_sweet_spot_y |-> 150,
               fish_is_green |-> FALSE, prev_sweet_spot_y |-> None,
               sweet_spot_velocity |-> 0, is_holding |-> FALSE, hold_frames |-> 0,
               pulse_counter |-> 0, warmup_frames |-> 10, in_dead_zone |-> FALSE,
               brake_frames |-> 0]]_vars

C13_Witness ==
    /\ ev = "idle"
    /\ ui
    /\ state = "fishing"
    /\ calls = <<"hold">>
    /\ detector.pulse_counter = 0
    /\ detector.warmup_frames = 10
    /\ last_cmd = "hold"
    /\ mouse.button

\* C15 as claimed: only tick steps write the session state, the idle timer, the
\* recast counter and the detector's fields; the hotkey callbacks do not.
C15_OnlyTickWrites ==
    [][(ev' \in {"toggle", "exit"}) =>
         UNCHANGED <<state, idle_duration, consecutive_idle_recasts, detector>>]_vars

\* C18: each tick makes at most one MouseController call among hold(), release()
\* and click(), in every session state.
C18_OneActuatorCallPerTick == ev \in TickEvents => MouseCalls(calls) <= 1

C18_Witness ==
    /\ ev = "fishing"
    /\ state = "caught"
    /\ MouseCalls(calls) = 1
    /\ last_cmd = "release"

C19_ActuatorIdempotent ==
    hist.on =>
        /\ (last_cmd = "hold" /\ hist.pre) => (hist.sent = <<>> /\ mouse.is_holding)
        /\ (last_cmd = "release" /\ ~hist.pre) =>
               (hist.sent = <<>> /\ ~mouse.is_holding)
        /\ \A i \in DOMAIN hist.events :
               hist.events[i] = IF i % 2 = 1 THEN "press" ELSE "release"
        /\ mouse.button <=> (Len(hist.events) % 2 = 1)

C19_Witness ==
    /\ hist.on
    /\ Len(hist.calls) >= 3
    /\ hist.calls[Len(hist.calls) - 1] = "hold"
    /\ last_cmd = "hold"
    /\ hist.pre
    /\ hist.sent = <<>>
    /\ hist.events = <<"press">>

\* C14 as claimed: the first tick dispatched after the toggle callback has set
\* enabled runs the Idle handler, on an idle timer the callback has just started.
C14_ReinitOnEnable ==
    [][(conc.on /\ conc.armed /\ conc.main = "tick" /\ conc'.main = "handler") =>
         /\ conc'.h = "idle"
         /\ idle_duration # None
         /\ conc.timer = "toggle"]_vars

Shutdown(late_ticks) ==
    (conc.on /\ conc.err = "none") =>
        /\ conc.late <= late_ticks
        /\ conc.cleanups <= 1
        /\ conc.closed => ~mouse.button
        /\ conc.main = "done" =>
              /\ ~running
              /\ conc.h = "none"
              /\ conc.cleanups = 1
              /\ conc.closed
              /\ ~mouse.button
              /\ ~mouse.is_holding

\* C16 as claimed: once the exit callback has set running to False no further
\* tick is dispatched; _cleanup runs exactly once, releases the mouse before it
\* closes the capture, and the button is not held when run() returns.
C16_NoFurtherTick == Shutdown(0)

\* C16 amended: the same, except that one more tick may be dispatched after
\* running was set to False, when the loop had tested self.running before the
\* callback's write; that tick completes before _cleanup runs.
C16_AtMostOneFurtherTick == Shutdown(1)

C16_Witness ==
    /\ conc.on
    /\ conc.err = "none"
    /\ conc.main = "done"
    /\ conc.late = 1
    /\ conc.cleanups = 1
    /\ state = "fishing"
    /\ is_holding
    /\ ~mouse.button

\* C17 as claimed: when capture.grab() or a MouseController call raises during a
\* tick, no further tick runs, _cleanup runs, and the button is not held when the
\* exception has left run().
C17_FatalFailure ==
    (conc.on /\ conc.err # "none") =>
        /\ conc.main \in {"finally", "close", "done"}
        /\ conc.main = "done" => (conc.cleanups = 1 /\ ~mouse.button)

DitherPattern(shift) ==
    \A i \in 1 .. Len(run.outs) :
        run.outs[i] = IF ((i + shift) % TAP_CYCLE) < TAP_HOLD THEN "hold" ELSE "release"

MissingRunFromZero ==
    /\ run.on
    /\ run.outs # <<>>
    /\ run.start = 0
    /\ \A i \in 1 .. Len(run.rules) : run.rules[i] = "missing"

\* C22 as claimed: from pulse_counter = 0 the missing-data dither answers hold,
\* hold, release, release, repeating with period 4.
C22_DitherHoldHoldFirst == MissingRunFromZero => DitherPattern(-1)

\* C22 amended: from pulse_counter = 0 the missing-data dither answers hold,
\* release, release, hold, repeating with period 4: the counter is incremented
\* before it is tested, so the first tick is the second tick of the hold half.
C22_DitherPeriodFour == MissingRunFromZero => DitherPattern(0)

C22_Witness ==
    /\ MissingRunFromZero
    /\ Len(run.outs) = 2 * TAP_CYCLE
    /\ seen.fish_y = None

\* C23: within a run of consecutive ticks answered by the missing-data or the
\* stuck-at-seed branch, no three consecutive ticks get the same command, and
\* every four consecutive ticks get exactly two holds and two releases.
C23_DitherBalanced ==
    run.on =>
        /\ \A i \in 1 .. (Len(run.outs) - 2) :
               ~(run.outs[i] = run.outs[i + 1] /\ run.outs[i + 1] = run.outs[i + 2])
        /\ \A i \in 1 .. (Len(run.outs) - (TAP_CYCLE - 1)) :
               Cardinality({j \in i .. (i + TAP_CYCLE - 1) : run.outs[j] = "hold"})
                   = TAP_HOLD

\* a run of two cycles in which both branches answered
C23_Witness ==
    /\ run.on
    /\ Len(run.outs) >= 2 * TAP_CYCLE
    /\ "missing" \in Range(run.rules)
    /\ "stuck" \in Range(run.rules)

\* C24: on a tick where both positions are known, the actor estimate is the seed
\* value 150 and the smoothed velocity left by the previous tick is below 0.5 in
\* magnitude, the stuck-at-seed branch answers: the counter advances by one, the
\* output is the 4-tick dither's, and sweet_spot_velocity and prev_sweet_spot_y
\* keep their values, whatever the positional error.
C24_StuckDither ==
    [][(/\ rule' # "none"
        /\ seen'.fish_y # None
        /\ seen'.sweet_spot_y = STUCK_VALUE
        /\ 2 * Abs(detector.sweet_spot_velocity) < VelDen)
       => (/\ rule' = "stuck"
           /\ detector'.pulse_counter = detector.pulse_counter + 1
           /\ out' = IF (detector'.pulse_counter % TAP_CYCLE) < TAP_HOLD
                     THEN "hold" ELSE "release"
           /\ detector'.sweet_spot_velocity = detector.sweet_spot_velocity
           /\ detector'.prev_sweet_spot_y = detector.prev_sweet_spot_y)]_vars

\* the stuck-at-seed branch answered a tick with a large positional error, after
\* the actor had been seen 30 rows away: updating the velocity would have braked
C24_Witness ==
    /\ rule = "stuck"
    /\ Abs(SeenDistance) > MEDIUM_JUMP_THRESHOLD
    /\ detector.prev_sweet_spot_y = STUCK_VALUE + MEDIUM_JUMP_THRESHOLD
    /\ detector.sweet_spot_velocity = 0

\* sweet_spot_velocity after a tick is 0.5 * velocity + 0.5 * (new - previous)
Smoothed(new, previous) ==
    2 * detector'.sweet_spot_velocity
        = detector.sweet_spot_velocity + (new - previous) * VelDen

\* C25 as claimed: on every controller tick with prev_sweet_spot_y known the
\* smoothed velocity becomes 0.5 * v + 0.5 * (new - previous), previous being the
\* actor estimate of the immediately preceding tick.
C25_VelocityEveryTick ==
    [][(/\ rule' # "none"
        /\ detector.prev_sweet_spot_y # None
        /\ seen.sweet_spot_y # None)
       => Smoothed(seen'.sweet_spot_y, seen.sweet_spot_y)]_vars

\* the tick that led to this state had an error beyond the deadband, whichever
\* of the two widths applied
WasOutsideDeadband ==
    \/ rule \in {"jump", "track"}
    \/ rule \in {"brake", "stuck"} /\ Abs(SeenDistance) > DEAD_ZONE

\* C26 as claimed: on the first tick inside the deadband after a tick that was
\* outside it (answered by the large-error, brake, dither or tracking branch),
\* brake_frames and pulse_counter are reset to 0 before the pulse cycle runs.
C26_EntryReset ==
    [][(WasOutsideDeadband /\ rule' \in {"drift", "pulse"})
       => (/\ detector'.in_dead_zone
           /\ detector'.brake_frames = 0
           /\ detector'.pulse_counter = IF rule' = "pulse" THEN PulseNext(0) ELSE 0)]_vars

\* C27 as claimed: once the warmup window of the session is over
\* (warmup_frames = 0) and a previous actor position is stored, a tick with both
\* positions known, |error| <= DEAD_ZONE and |velocity| <= BRAKE_VELOCITY is
\* never answered by the plain tracking branch: the deadband is 20 rows wide,
\* not 5.
C27_WideDeadbandAfterWarmup ==
    [][(/\ rule' # "none"
        /\ seen'.fish_y # None
        /\ detector.warmup_frames = 0
        /\ detector.prev_sweet_spot_y # None
        /\ Abs((seen'.fish_y - GRAVITY_COMPENSATION) - seen'.sweet_spot_y) <= DEAD_ZONE
        /\ Abs(detector'.sweet_spot_velocity) <= BRAKE_VELOCITY * VelDen)
       => rule' # "track"]_vars

\* the tick just taken was answered with both positions known, the error within
\* the deadband in force and the updated velocity at most BRAKE_VELOCITY
InsideDeadbandTick ==
    /\ rule' # "none"
    /\ seen'.fish_y # None
    /\ Abs(detector'.sweet_spot_velocity) <= BRAKE_VELOCITY * VelDen
    /\ Abs((seen'.fish_y - GRAVITY_COMPENSATION) - seen'.sweet_spot_y)
           <= (IF 10 * Abs(detector'.sweet_spot_velocity) < VelDen
               THEN WARMUP_DEAD_ZONE ELSE DEAD_ZONE)

\* C28: inside the deadband with |velocity| <= BRAKE_VELOCITY, a locked (green)
\* marker gives hold when the actor estimate is below 70 and release when it is
\* above 250, an unlocked marker gives hold when the actor estimate is above
\* 250; pulse_counter keeps its value on such a tick.
C28_EdgeSteady ==
    [][InsideDeadbandTick
       => LET green == detector'.fish_is_green
              y == seen'.sweet_spot_y
              edge == (green /\ y < TOP_EDGE) \/ y > BOTTOM_EDGE
          IN  /\ (green /\ y < TOP_EDGE) => out' = "hold"
              /\ (green /\ y > BOTTOM_EDGE) => out' = "release"
              /\ (~green /\ y > BOTTOM_EDGE) => out' = "hold"
              /\ edge => detector'.pulse_counter = detector.pulse_counter]_vars

\* an unlocked marker, the actor estimate at 260 with velocity -5, the counter
\* at the release tick of the pulse cycle: steady hold, counter untouched
C28_Witness ==
    /\ rule = "edge"
    /\ ~detector.fish_is_green
    /\ seen.sweet_spot_y > BOTTOM_EDGE
    /\ detector.sweet_spot_velocity = -5 * VelDen
    /\ detector.pulse_counter = PULSE_HOLD_FRAMES
    /\ out = "hold"

\* C29: inside the deadband, away from the edge cases and with
\* |velocity| <= BRAKE_VELOCITY, a velocity above 3 gives hold and a velocity
\* below -3 gives release, and pulse_counter does not advance (it keeps its
\* value, or is 0 on the tick that enters the dead zone); the pulse cycle only
\* answers ticks with |velocity| <= 3.
C29_DriftBrake ==
    [][InsideDeadbandTick
       => LET v == detector'.sweet_spot_velocity
              green == detector'.fish_is_green
              y == seen'.sweet_spot_y
              edge == (green /\ y < TOP_EDGE) \/ y > BOTTOM_EDGE
              kept == detector'.pulse_counter =
                          IF detector.in_dead_zone THEN detector.pulse_counter ELSE 0
          IN  /\ (~edge /\ v > DRIFT_VELOCITY * VelDen) => (out' = "hold" /\ kept)
              /\ (~edge /\ v < -(DRIFT_VELOCITY * VelDen)) => (out' = "release" /\ kept)
              /\ rule' = "pulse" => Abs(v) <= DRIFT_VELOCITY * VelDen]_vars

\* the actor rising at 5 rows a tick inside the dead zone: release, with the
\* counter left in the middle of the hold part of the pulse cycle
C29_Witness ==
    /\ rule = "drift"
    /\ out = "release"
    /\ detector.sweet_spot_velocity = -5 * VelDen
    /\ detector.in_dead_zone
    /\ detector.pulse_counter = 3

\* C30: a raw actor detection below row 20 or above row 280 is discarded: the
\* estimator returns the previous estimate and leaves last_sweet_spot_y and
\* warmup_frames as they were; so during Tracking last_sweet_spot_y stays within
\* 20 .. 280.
C30_EdgeRejection ==
    /\ state = "fishing" => detector.last_sweet_spot_y \in EDGE_MIN .. EDGE_MAX
    /\ (ControllerTick /\ seen.raw # None /\ (seen.raw < EDGE_MIN \/ seen.raw > EDGE_MAX))
       => (/\ seen.sweet_spot_y = seen.last
           /\ detector.last_sweet_spot_y = seen.last
           /\ detector.warmup_frames = seen.warmup)

\* a detection at row 290, 30 rows from the estimate, during warmup: only the
\* edge test discards it
C30_Witness ==
    /\ ControllerTick
    /\ seen.raw > EDGE_MAX
    /\ Abs(seen.raw - seen.last) <= MAX_SWEET_SPOT_JUMP
    /\ seen.warmup > 0
    /\ detector.last_sweet_spot_y = seen.last

\* the ControllerPhase fields of a detector state
ControllerPhase(d) ==
    <<d.is_holding, d.pulse_counter, d.in_dead_zone, d.brake_frames>>

\* C31: get_fish_position and get_sweet_spot_position leave is_holding,
\* pulse_counter, in_dead_zone and brake_frames as they are, on every frame,
\* also when the marker or the actor's gap is not found.
C31_EstimationKeepsPhase ==
    \A f \in PhaseFrames :
        LET r1 == GetFishPosition(detector, f)
            r2 == GetSweetSpotPosition(r1.d, f)
        IN  /\ ControllerPhase(r1.d) = ControllerPhase(detector)
            /\ ControllerPhase(r2.d) = ControllerPhase(detector)
            /\ ControllerPhase(GetSweetSpotPosition(detector, f).d)
                   = ControllerPhase(detector)

\* a state holding, inside the dead zone, in the middle of the pulse cycle, in
\* which a frame without marker and without gap leaves the detector as it is
\* and another frame changes the tracker's fields
C31_Witness ==
    /\ ControllerTick
    /\ detector.is_holding
    /\ detector.in_dead_zone
    /\ detector.pulse_counter = 3
    /\ \E f \in PhaseFrames :
           /\ f.sweet_raw = None
           /\ f.fish_pixels = <<0, 0>>
           /\ GetSweetSpotPosition(GetFishPosition(detector, f).d, f).d = detector
    /\ \E f \in PhaseFrames :
           LET r2 == GetSweetSpotPosition(GetFishPosition(detector, f).d, f)
           IN  /\ r2.d.last_fish_y # detector.last_fish_y
               /\ r2.d.last_sweet_spot_y # detector.last_sweet_spot_y
               /\ r2.d.warmup_frames # detector.warmup_frames

\* C32: click(), whatever the button state before it, sends a release first if
\* the button was held, then exactly one press and one release; afterwards the
\* button is up and MouseController.is_holding is false.
C32_ClickEndsReleased ==
    (hist.on /\ last_cmd = "click") =>
        /\ hist.sent = (IF hist.pre THEN <<"release">> ELSE <<>>) \o <<"press", "release">>
        /\ ~mouse.button
        /\ ~mouse.is_holding

\* click() called while the button was held
C32_Witness ==
    /\ hist.on
    /\ last_cmd = "click"
    /\ hist.pre
    /\ hist.sent = <<"release", "press", "release">>
    /\ ~mouse.button

\* C33: if from some point on the program keeps running with automation
\* enabled and no tick sees the minigame UI, then recovery actions (a recast
\* click or the anti-AFK sequence of an Idle tick) are issued again and again,
\* and so is the anti-AFK sequence.
C33_IdleRecovery ==
    <>[](running /\ enabled /\ ~ui)
        => /\ []<>(ev = "idle" /\ calls \in {<<"click">>, <<"anti_afk">>})
           /\ []<>(ev = "idle" /\ calls = <<"anti_afk">>)

\* the second anti-AFK sequence of an idle period
C33_Witness ==
    /\ enabled
    /\ ev = "idle"
    /\ ~ui
    /\ calls = <<"anti_afk">>
    /\ anti_afks = 2
    /\ consecutive_idle_recasts = 0

\* C34 as claimed: with _on_toggle running on the hotkey thread at any point of
\* a tick, whenever enabled is False, no tick is executing and no callback is
\* under way, the mouse button is not held.
C34_PausedNotHeld ==
    (/\ conc.on
     /\ conc.err = "none"
     /\ running
     /\ ~enabled
     /\ conc.cb = "none"
     /\ conc.main \in {"while", "if"})
    => ~mouse.button

\* C35 as claimed: between ticks (ticks and hotkey callbacks atomic),
\* MouseController.is_holding implies state = FISHING and enabled; in Idle and
\* Caught the button is never held.
C35_HeldOnlyTracking ==
    mouse.is_holding => (state = "fishing" /\ enabled)

\* C35 amended: as long as the exit hotkey has not been pressed,
\* MouseController.is_holding implies state = FISHING and enabled; after it the
\* button may stay held, in any state and with enabled False, until _cleanup
\* releases it, and it is not held once run() has returned.
C35_HeldOnlyTrackingUntilExit ==
    /\ (running /\ mouse.is_holding) => (state = "fishing" /\ enabled)
    /\ pc = "done" => ~mouse.is_holding

\* the exit hotkey pressed during Tracking, _cleanup not yet run
C35_Witness ==
    /\ ~running
    /\ ~enabled
    /\ pc = "loop"
    /\ state = "fishing"
    /\ mouse.is_holding

C37_Reacquire ==
    \A v \in ReacquireSweetRaws :
        <>[](ControllerTick /\ seen.raw = v)
            => <>(ControllerTick /\ seen.raw = v /\ seen.sweet_spot_y = v)

\* C38: between ticks the consecutive-timeout counter lies in
\* 0 .. NO_BAIT_THRESHOLD - 1, it is 0 in every Tracking state, and it counts
\* only the timeouts since the last Tracking session (modulo the threshold).
C38_RecastCounterRange ==
    /\ consecutive_idle_recasts \in 0 .. (NO_BAIT_THRESHOLD - 1)
    /\ state = "fishing" => consecutive_idle_recasts = 0
    /\ expiries < MaxExpiries =>
           consecutive_idle_recasts = expiries % NO_BAIT_THRESHOLD

\* a timeout tick that brings the counter to its largest value
C38_Witness ==
    /\ ev = "idle"
    /\ calls = <<"click">>
    /\ expiries = NO_BAIT_THRESHOLD - 1
    /\ consecutive_idle_recasts = NO_BAIT_THRESHOLD - 1

\* C39 as claimed: between ticks FishingMacro.is_holding equals
\* MouseController.is_holding, also after the toggle callback has paused the
\* automation during Tracking.
C39_MacroMirrorsActuator == is_holding = mouse.is_holding

\* C40 as claimed: a controller tick whose frame holds fewer than
\* MIN_FISH_MARKER_PIXELS target pixels leaves the target part of the tracker
\* state as it was: last_fish_y and fish_is_green keep their values.
C40_TargetPartKept ==
    [][(rule' # "none" /\ seen'.fish_n < MIN_FISH_MARKER_PIXELS) =>
           /\ detector'.last_fish_y = detector.last_fish_y
           /\ detector'.fish_is_green = detector.fish_is_green]_vars

====
